---- MODULE Spec2Model ----
(***************************************************************************)
(* Serial-link transport core of lean-link: the Registry                   *)
(* (SerialPortDevice), the Group (SerialPortInner), the Link               *)
(* (SerialPortHolder with its reconnect loop and read/write loop) and the  *)
(* older racing Group (SerialPortGroup).                                   *)
(*                                                                         *)
(* Time is abstracted: a timer (heartbeat interval, ack timeout, the 5 s   *)
(* and 10 ms sleeps) may fire whenever its branch is enabled.  The bytes   *)
(* written and read are abstracted to the fact that a chunk was written or *)
(* read.  The caller-supplied Parser/Handler pair is modelled after the    *)
(* pair used in test_serial_port_inner: data chunks travel to the Handler, *)
(* which may answer a chunk with ToPortEvent::Ack.                         *)
(***************************************************************************)
EXTENDS Integers, Sequences, FiniteSets, TLC

\* ---------------------------------------------------------------- bounds
\* Number of Group instances (SerialPortInner) ever constructed.
MaxGroups == 2
\* Number of Link instances (SerialPortHolder) ever constructed.
MaxLinks == 2
\* Number of tasks that may call into the Registry; all but the first call
\* only where concurrent calls are the subject (InitConcurrent).
NumCallers == 2
\* Capacity of a Link's command channel (mpsc::channel(32) in the code,
\* scaled down).
QueueCap == 2
\* Capacity of a Group's FromPortEvent channel (mpsc::channel(32) in the
\* code, scaled down).
EventCap == 2
\* Capacity of the Link -> Parser -> Handler pipeline (mpsc::channel(32)).
PipeCap == 1
\* Registry calls, I/O faults and data chunks read in one behaviour.
MaxCalls == 3
\* Calls of each of the concurrent tasks.
MaxConcurrentCalls == 1
MaxFaults == 1
MaxReads == 1
\* Ticks a wait is followed for.
MaxWait == 3

\* ------------------------------------------------------------- vocabulary
Names == {"a", "b"}
Paths == {"p1", "p2"}
\* config.timeout values: Duration::from_millis(0) and a duration that is
\* not zero (the length of a wait is abstracted: a wait that is not notified
\* ends by its timeout, at once with a zero duration).
Timeouts == {0, 100}
Groups == 1..MaxGroups
Links == 1..MaxLinks
Callers == 1..NumCallers
NoGroup == 0
NoLink == 0
\* AtomicI16::new(-1): the idle value of res_counter / ack_counter.
Idle == 0 - 1

\* ToPortEvent
CmdWrite(need_ack) == [kind |-> "Write", need_ack |-> need_ack]
CmdAck == [kind |-> "Ack", need_ack |-> FALSE]
CmdHeartbeat == [kind |-> "Heartbeat", need_ack |-> FALSE]
CmdStop == [kind |-> "Stop", need_ack |-> FALSE]
\* FromPortEvent; src is the emitting Link (the code's event carries no
\* sender, the tag only serves the statements about distinct members).
Event(kind, l) == [kind |-> kind, src |-> l]

VARIABLES
    \* Registry (SerialPortDevice)
    inner_map,        \* name -> Group instance or NoGroup
    ngroups,          \* Group instances constructed so far
    grp_hb,           \* Group -> heartbeat_command.is_some()
    pending_cfg,      \* Group -> configs the task spawned by new() still adds
    \* Group (SerialPortInner)
    port_holders,     \* Group -> (path -> Link instance or NoLink)
    res_counter,      \* Group -> AtomicI16
    from_port_event,  \* Group -> queue of FromPortEvent
    ev_pc,            \* Group -> position of the event consumer task
    ev_tmp,           \* Group -> value loaded by the consumer's increment
    \* Link (SerialPortHolder)
    nlinks,           \* Link instances constructed so far
    link_group,       \* Link -> owning Group (NoGroup: not constructed)
    link_path,        \* Link -> config.path
    link_timeout,     \* Link -> config.timeout
    is_stop,          \* Link -> AtomicBool
    port,             \* Link -> handle present (Some) or absent (None)
    to_port_event,    \* Link -> queue of ToPortEvent
    stop_task,        \* Link -> the task spawned by stop() has yet to send
    rw_pc,            \* Link -> position of _start_read_write
    open_pc,          \* Link -> position of _start_open
    is_need_ack,      \* Link -> local of _start_read_write
    is_heartbeat,     \* Link -> local of _start_read_write
    notify,           \* Link -> Notify holds a permit
    pipe,             \* Link -> data chunks between the Link and the Handler
    closes,           \* Link -> Close events sent [up, down]
    last_event,       \* Link -> how the wait of its latest Write was resolved
    timer,            \* Link -> ticks the timeout future of this select has run
    waited,           \* Link -> ticks since the outstanding wait was set
    \* callers of the Registry API
    call,             \* Caller -> [op, name, g, pc, result, todo, left]
    \* what the environment may still do (bounds the exploration)
    budget,           \* [faults, reads]
    \* the older Group (SerialPortGroup) and its ports (SerialPort)
    groups,           \* path -> [present, framed, timeout]
    ack_counter,      \* AtomicI16
    cancel_token,     \* CancellationToken is cancelled
    racing,           \* the next() in progress: [on, single, futures, need]
    group_call,       \* the latest call on the SerialPortGroup
    \* the conversion utilities (utils::bcd, modbus::registers_to_u32)
    conv              \* the call in hand: [fn, args, pc, result, back]

regVars == <<inner_map, ngroups, grp_hb, pending_cfg>>
grpVars == <<port_holders, res_counter, from_port_event, ev_pc, ev_tmp>>
cfgVars == <<nlinks, link_group, link_path, link_timeout>>
rwVars == <<rw_pc, is_need_ack, is_heartbeat, notify, pipe, closes, last_event>>
linkVars == <<is_stop, port, to_port_event, stop_task, open_pc, rwVars>>
coreVars == <<regVars, grpVars, cfgVars, linkVars, call, budget>>
raceVars == <<groups, ack_counter, cancel_token, racing, group_call>>
convVars == <<conv>>
timeVars == <<timer, waited>>
vars == <<coreVars, raceVars, convVars, timeVars>>

\* ---------------------------------------------------------------- helpers
Members(g) == {p \in Paths : port_holders[g][p] # NoLink}
MemberLinks(g) == {port_holders[g][p] : p \in Members(g)}
LinksOf(g) == {l \in Links : link_group[l] = g}
Registered == {inner_map[n] : n \in Names} \ {NoGroup}
Constructed(l) == link_group[l] # NoGroup

\* A task that has not called yet and may start `left` calls.
IdleCall(left) == [op |-> "none", name |-> "none", g |-> NoGroup, pc |-> "idle",
                   result |-> "none", todo |-> {}, left |-> left]

\* One task calls into the Registry.
OneCaller == [c \in Callers |-> IdleCall(IF c = 1 THEN MaxCalls ELSE 0)]

\* The read guard of port_holders is held by a fan-out from its check to
\* its return (inner.rs:236, guard alive to the end of _write).
Readers(g) == {c \in Callers : call[c].g = g /\ call[c].pc \in {"reset", "send"}}

\* ------------------------------------------------------------------- Init
NoHolders == [p \in Paths |-> NoLink]

InitLinks ==
    /\ nlinks = 0
    /\ link_group = [l \in Links |-> NoGroup]
    /\ link_path = [l \in Links |-> "p1"]
    /\ link_timeout = [l \in Links |-> 100]
    /\ is_stop = [l \in Links |-> FALSE]
    /\ port = [l \in Links |-> FALSE]
    /\ to_port_event = [l \in Links |-> <<>>]
    /\ stop_task = [l \in Links |-> FALSE]
    /\ rw_pc = [l \in Links |-> "none"]
    /\ open_pc = [l \in Links |-> "none"]
    /\ is_need_ack = [l \in Links |-> FALSE]
    /\ is_heartbeat = [l \in Links |-> FALSE]
    /\ notify = [l \in Links |-> FALSE]
    /\ pipe = [l \in Links |-> 0]
    /\ closes = [l \in Links |-> [up |-> 0, down |-> 0]]
    /\ last_event = [l \in Links |-> "none"]
    /\ timer = [l \in Links |-> 0]
    /\ waited = [l \in Links |-> 0]

InitGroups ==
    /\ port_holders = [g \in Groups |-> NoHolders]
    /\ res_counter = [g \in Groups |-> Idle]
    /\ from_port_event = [g \in Groups |-> <<>>]
    /\ ev_tmp = [g \in Groups |-> 0]

Cfg(p, t) == [path |-> p, timeout |-> t]

\* No entry of SerialPortGroup.groups for a path.
NoPort == [present |-> FALSE, framed |-> FALSE, timeout |-> 0]
NotRacing == [on |-> FALSE, single |-> FALSE, futures |-> {}, need |-> 0]
NoGroupCall == [op |-> "none", path |-> "none", again |-> FALSE, result |-> "none"]

\* SerialPortGroup::new
InitRace ==
    /\ groups = [p \in Paths |-> NoPort]
    /\ ack_counter = Idle
    /\ cancel_token = FALSE
    /\ racing = NotRacing
    /\ group_call = NoGroupCall

\* A Result that no call has produced yet.
Pending == [pending |-> TRUE]

\* No conversion is called.
InitConv ==
    conv = [fn |-> "none", args |-> <<>>, pc |-> "ready",
            result |-> Pending, back |-> Pending]

\* The Registry right after add_serialport("a", [p1, p2]) on an empty
\* SerialPortDevice: Group 1 is stored under "a", its event consumer task
\* runs and the task spawned by SerialPortInner::new has yet to add the two
\* configs.  No heartbeat generator is configured.
Init ==
    /\ InitGroups
    /\ InitLinks
    /\ InitRace
    /\ InitConv
    /\ inner_map = [n \in Names |-> IF n = "a" THEN 1 ELSE NoGroup]
    /\ ngroups = 1
    /\ grp_hb = [g \in Groups |-> FALSE]
    /\ pending_cfg = [g \in Groups |->
          IF g = 1 THEN {Cfg("p1", 100), Cfg("p2", 100)} ELSE {}]
    /\ ev_pc = [g \in Groups |-> IF g = 1 THEN "recv" ELSE "none"]
    /\ call = OneCaller
    /\ budget = [faults |-> MaxFaults, reads |-> MaxReads]

\* ================================================================== Link
\* The mutex around the handle (Arc<Mutex<Option<SerialStream>>>) is held by
\* the read/write loop for a whole select (port_guard lives to the end of
\* the iteration) and by the reconnect loop while it opens the port.
RwHoldsPort(l) == rw_pc[l] = "select"
OpenHoldsPort(l) == open_pc[l] = "open"

\* The receiver of the command channel lives until _start_read_write returns.
ChannelClosed(l) == rw_pc[l] = "done"
HasRoom(l) == Len(to_port_event[l]) < QueueCap

\* A send that delivers its command twice.
EnqueueTwice(q, l, cmd) ==
    IF rw_pc[l] = "done" THEN q ELSE [q EXCEPT ![l] = Append(Append(@, cmd), cmd)]

\* Sender::send on the command channel for a sender that does not wait:
\* the queue after the send (unchanged when the receiver is gone).
Enqueue(q, l, cmd) ==
    IF ChannelClosed(l) THEN q ELSE [q EXCEPT ![l] = Append(@, cmd)]

\* A holder whose Drop does nothing.
StopHolderNot(stopped, l) == stopped

\* SerialPortHolder::stop, run by Drop: set the flag, spawn the Stop send.
StopHolder(stopped, l) ==
    IF l = NoLink THEN stopped ELSE [stopped EXCEPT ![l] = TRUE]

\* The task spawned by stop() sends ToPortEvent::Stop.
StopSend(l) ==
    /\ stop_task[l]
    /\ ChannelClosed(l) \/ HasRoom(l)
    /\ stop_task' = [stop_task EXCEPT ![l] = FALSE]
    /\ to_port_event' = Enqueue(to_port_event, l, CmdStop)
    /\ UNCHANGED <<timeVars, convVars, raceVars, budget, regVars, grpVars, cfgVars, is_stop, port, open_pc, rwVars, call>>

\* ---- _start_open
\* Loop head: leave when is_stop is set, else go for the mutex.
OpenCheck(l) ==
    /\ open_pc[l] = "check"
    /\ open_pc' = [open_pc EXCEPT ![l] = IF is_stop[l] THEN "exit" ELSE "lock"]
    /\ UNCHANGED <<timeVars, convVars, raceVars, budget, regVars, grpVars, cfgVars, is_stop, port, to_port_event,
                   stop_task, rwVars, call>>

\* Next position of the reconnect loop once it holds the mutex: open the
\* port when the handle is absent, else sleep and loop.
OpenNext(present) == IF present THEN "check" ELSE "open"

OpenLock(l) ==
    /\ open_pc[l] = "lock"
    /\ ~RwHoldsPort(l)
    /\ open_pc' = [open_pc EXCEPT ![l] = OpenNext(port[l])]
    /\ UNCHANGED <<timeVars, convVars, raceVars, budget, regVars, grpVars, cfgVars, is_stop, port, to_port_event,
                   stop_task, rwVars, call>>

\* A reconnect loop that returns after a failed attempt.
OpenAfterGiveUp(ok) == IF ok THEN "check" ELSE "exit"

\* Position after an open attempt: both arms fall through to the sleep and
\* the loop head.
OpenAfter(ok) == "check"

\* open_native_async succeeds (the handle is stored) or fails (logged).
OpenAttempt(l) ==
    /\ open_pc[l] = "open"
    /\ \E ok \in BOOLEAN :
        /\ port' = [port EXCEPT ![l] = ok]
        /\ open_pc' = [open_pc EXCEPT ![l] = OpenAfter(ok)]
    /\ UNCHANGED <<timeVars, convVars, raceVars, budget, regVars, grpVars, cfgVars, is_stop, to_port_event,
                   stop_task, rwVars, call>>

\* ---- _start_read_write
\* (RwNextReturn: a loop that returns on is_stop without the two Close
\* sends.)
\* The loop head: break on is_stop; with the handle absent drop the guard,
\* sleep 10 ms and retry ("head"); with the handle present enter the select
\* holding the mutex ("select").  An arm of the select that completes runs
\* into the next loop head without suspending, so the head is evaluated in
\* the step of the arm.
RwNextReturn(stopped, present) ==
    IF stopped THEN "done"
    ELSE IF present THEN "select"
    ELSE "head"

\* A loop that leaves when the handle is gone.
RwNextExitOnError(stopped, present) ==
    IF stopped \/ ~present THEN "close_up"
    ELSE "select"

RwNext(stopped, present) ==
    IF stopped THEN "close_up"
    ELSE IF present THEN "select"
    ELSE "head"

\* The loop head reached from the sleep (or from the spawn).
RwHead(l) ==
    /\ rw_pc[l] = "head"
    /\ is_stop[l] \/ (port[l] /\ ~OpenHoldsPort(l))
    /\ rw_pc' = [rw_pc EXCEPT ![l] = RwNext(is_stop[l], port[l])]
    /\ UNCHANGED <<timeVars, convVars, raceVars, budget, regVars, grpVars, cfgVars, is_stop, port, to_port_event,
                   stop_task, open_pc, is_need_ack, is_heartbeat, last_event, notify,
                   pipe, closes, call>>

\* An arm of the select has completed: the futures of the select are dropped
\* and the next iteration builds them anew, the timeout future among them
\* (timeout(config.timeout, ..) starts at zero).  set: the arm has set a
\* wait.
NextSelect(l, set) ==
    /\ timer' = [timer EXCEPT ![l] = 0]
    /\ waited' = [waited EXCEPT ![l] = IF set \/ ~is_need_ack'[l] THEN 0 ELSE @]

\* Read arm: Ok(0), Ok(n) forwarded to the Parser, or Err dropping the handle.
RwRead(l) ==
    /\ rw_pc[l] = "select"
    /\ \E out \in {"zero", "data", "err"} :
        /\ out = "data" => pipe[l] < PipeCap /\ budget.reads > 0
        /\ out = "err" => budget.faults > 0
        /\ pipe' = [pipe EXCEPT ![l] = IF out = "data" THEN @ + 1 ELSE @]
        /\ port' = [port EXCEPT ![l] = IF out = "err" THEN FALSE ELSE @]
        /\ budget' = [budget EXCEPT !.reads = IF out = "data" THEN @ - 1 ELSE @,
                                    !.faults = IF out = "err" THEN @ - 1 ELSE @]
        /\ rw_pc' = [rw_pc EXCEPT ![l] = RwNext(is_stop[l], out # "err")]
    /\ UNCHANGED <<convVars, raceVars, regVars, grpVars, cfgVars, is_stop, to_port_event,
                   stop_task, open_pc, is_need_ack, is_heartbeat, last_event, notify,
                   closes, call>>
    /\ NextSelect(l, FALSE)

\* Write arm after a successful port.write: is_need_ack = need_ack.
WaitAfterWrite(waiting, need_ack) == need_ack

\* Command arm.  The None arm of recv needs every sender dropped with the
\* queue empty; SerialPortHolder drops its sender only after stop() has set
\* is_stop and queued Stop, so the loop leaves by one of those first.
RwCommand(l) ==
    /\ rw_pc[l] = "select"
    /\ to_port_event[l] # <<>>
    /\ LET cmd == Head(to_port_event[l]) IN
        /\ to_port_event' = [to_port_event EXCEPT ![l] = Tail(@)]
        /\ CASE cmd.kind = "Write" ->
                  \E ok \in BOOLEAN :
                    /\ ~ok => budget.faults > 0
                    /\ budget' = [budget EXCEPT !.faults = IF ok THEN @ ELSE @ - 1]
                    /\ is_heartbeat' = [is_heartbeat EXCEPT ![l] = FALSE]
                    /\ is_need_ack' = [is_need_ack EXCEPT ![l] =
                          IF ok THEN WaitAfterWrite(@, cmd.need_ack) ELSE @]
                    /\ port' = [port EXCEPT ![l] = IF ok THEN @ ELSE FALSE]
                    /\ rw_pc' = [rw_pc EXCEPT ![l] = RwNext(is_stop[l], ok)]
                    /\ last_event' = [last_event EXCEPT ![l] = "none"]
                    /\ UNCHANGED notify
             [] cmd.kind \in {"Ack", "Heartbeat"} ->
                    /\ notify' = [notify EXCEPT ![l] = TRUE]
                    /\ rw_pc' = [rw_pc EXCEPT ![l] = RwNext(is_stop[l], TRUE)]
                    /\ UNCHANGED <<is_heartbeat, last_event, is_need_ack, port, budget>>
             [] cmd.kind = "Stop" ->
                    /\ rw_pc' = [rw_pc EXCEPT ![l] = "close_up"]
                    /\ UNCHANGED <<is_heartbeat, last_event, is_need_ack, port, notify, budget>>
    /\ UNCHANGED <<convVars, raceVars, regVars, grpVars, cfgVars, is_stop, stop_task, open_pc,
                   pipe, closes, call>>
    /\ NextSelect(l, Head(to_port_event[l]) = CmdWrite(TRUE) /\ port'[l])

\* Heartbeat arm: enabled with a generator configured and no wait outstanding.
RwHeartbeat(l) ==
    /\ rw_pc[l] = "select"
    /\ grp_hb[link_group[l]]
    /\ ~is_need_ack[l]
    /\ \E ok \in BOOLEAN :
        /\ ~ok => budget.faults > 0
        /\ budget' = [budget EXCEPT !.faults = IF ok THEN @ ELSE @ - 1]
        /\ is_need_ack' = [is_need_ack EXCEPT ![l] = ok]
        /\ is_heartbeat' = [is_heartbeat EXCEPT ![l] = IF ok THEN TRUE ELSE @]
        /\ port' = [port EXCEPT ![l] = IF ok THEN @ ELSE FALSE]
        /\ rw_pc' = [rw_pc EXCEPT ![l] = RwNext(is_stop[l], ok)]
    /\ UNCHANGED <<convVars, raceVars, regVars, grpVars, cfgVars, is_stop, to_port_event,
                   stop_task, open_pc, notify, pipe, closes, last_event, call>>
    /\ NextSelect(l, port'[l])

\* A timeout arm that does not tell a heartbeat from a Write.
ResolutionPlain(notified, heartbeat) == IF notified THEN "Ack" ELSE "Timeout"

\* The event the timeout arm sends upstream.
Resolution(notified, heartbeat) ==
    IF notified
      THEN (IF heartbeat THEN "HeartbeatAck" ELSE "Ack")
      ELSE (IF heartbeat THEN "HeartbeatTimeout" ELSE "Timeout")

\* Timeout arm: timeout(config.timeout, notified) with is_need_ack set.  A
\* stored permit completes notified at once; otherwise the timeout elapses.
RwTimeout(l) ==
    /\ rw_pc[l] = "select"
    /\ is_need_ack[l]
    /\ Len(from_port_event[link_group[l]]) < EventCap
    /\ from_port_event' = [from_port_event EXCEPT ![link_group[l]] =
          Append(@, Event(Resolution(notify[l], is_heartbeat[l]), l))]
    /\ notify' = [notify EXCEPT ![l] = FALSE]
    /\ is_need_ack' = [is_need_ack EXCEPT ![l] = FALSE]
    /\ is_heartbeat' = [is_heartbeat EXCEPT ![l] = FALSE]
    /\ last_event' = [last_event EXCEPT ![l] = Resolution(notify[l], is_heartbeat[l])]
    /\ rw_pc' = [rw_pc EXCEPT ![l] = RwNext(is_stop[l], TRUE)]
    /\ UNCHANGED <<convVars, raceVars, budget, regVars, port_holders, res_counter, ev_pc, ev_tmp,
                   cfgVars, is_stop, port, to_port_event, stop_task, open_pc,
                   pipe, closes, call>>
    /\ NextSelect(l, FALSE)

\* Duration of a tick of the clock, in the unit of config.timeout.
TickMs == 50
Ticks(timeout) == timeout \div TickMs

\* Time passes while the select of Link l waits with the timeout arm armed.
Tick(l) ==
    /\ rw_pc[l] = "select"
    /\ is_need_ack[l]
    /\ timer[l] < Ticks(link_timeout[l])
    /\ waited[l] < MaxWait
    /\ timer' = [timer EXCEPT ![l] = @ + 1]
    /\ waited' = [waited EXCEPT ![l] = @ + 1]
    /\ UNCHANGED <<coreVars, raceVars, convVars>>

\* The timeout arm on the clock: notified completes on a stored permit, the
\* timeout when its future has run for config.timeout.
RwTimeoutAt(l) ==
    /\ notify[l] \/ timer[l] >= Ticks(link_timeout[l])
    /\ RwTimeout(l)

\* After the loop: Close upstream ...
RwCloseUp(l) ==
    /\ rw_pc[l] = "close_up"
    /\ Len(from_port_event[link_group[l]]) < EventCap
    /\ from_port_event' = [from_port_event EXCEPT ![link_group[l]] =
          Append(@, Event("Close", l))]
    /\ closes' = [closes EXCEPT ![l].up = @ + 1]
    /\ rw_pc' = [rw_pc EXCEPT ![l] = "close_down"]
    /\ UNCHANGED <<timeVars, convVars, raceVars, budget, regVars, port_holders, res_counter, ev_pc, ev_tmp,
                   cfgVars, is_stop, port, to_port_event, stop_task, open_pc,
                   is_need_ack, is_heartbeat, last_event, notify, pipe, call>>

\* ... then Close to the Parser, and return.
RwCloseDown(l) ==
    /\ rw_pc[l] = "close_down"
    /\ pipe[l] < PipeCap
    /\ closes' = [closes EXCEPT ![l].down = @ + 1]
    /\ rw_pc' = [rw_pc EXCEPT ![l] = "done"]
    /\ UNCHANGED <<timeVars, convVars, raceVars, budget, regVars, grpVars, cfgVars, is_stop, port, to_port_event,
                   stop_task, open_pc, is_need_ack, is_heartbeat, last_event, notify,
                   pipe, call>>

\* The Handler receives a data chunk and may answer it with ToPortEvent::Ack.
HandlerData(l) ==
    /\ pipe[l] > 0
    /\ pipe' = [pipe EXCEPT ![l] = @ - 1]
    /\ \E ack \in BOOLEAN :
        IF ack
          THEN /\ ChannelClosed(l) \/ HasRoom(l)
               /\ to_port_event' = Enqueue(to_port_event, l, CmdAck)
          ELSE UNCHANGED to_port_event
    /\ UNCHANGED <<timeVars, convVars, raceVars, budget, regVars, grpVars, cfgVars, is_stop, port, stop_task,
                   open_pc, rw_pc, is_need_ack, is_heartbeat, last_event, notify, closes,
                   call>>

\* ================================================================= Group
Configs == [path : Paths, timeout : Timeouts]

\* SerialPortInner::add_config under the write guard of port_holders: a
\* holder already stored for the path is removed (its Drop runs stop()),
\* a new holder is built (spawning its two loops) and inserted.
AddConfig(g, cfg) ==
    /\ Readers(g) = {}
    /\ nlinks < MaxLinks
    /\ LET old == port_holders[g][cfg.path]
           new == nlinks + 1 IN
        /\ nlinks' = new
        /\ port_holders' = [port_holders EXCEPT ![g][cfg.path] = new]
        /\ link_group' = [link_group EXCEPT ![new] = g]
        /\ link_path' = [link_path EXCEPT ![new] = cfg.path]
        /\ link_timeout' = [link_timeout EXCEPT ![new] = cfg.timeout]
        /\ rw_pc' = [rw_pc EXCEPT ![new] = "head"]
        /\ open_pc' = [open_pc EXCEPT ![new] = "check"]
        /\ is_stop' = StopHolder(is_stop, old)
        /\ stop_task' = StopHolder(stop_task, old)
    /\ UNCHANGED <<res_counter, from_port_event, ev_pc, ev_tmp, port,
                   to_port_event, is_need_ack, is_heartbeat, last_event, notify, pipe,
                   closes>>

\* SerialPortInner::remove_config: remove the holder of config.path, if any
\* (only the path of the config is read).
RemoveConfig(g, p) ==
    /\ Readers(g) = {}
    /\ LET old == port_holders[g][p] IN
        /\ port_holders' = [port_holders EXCEPT ![g][p] = NoLink]
        /\ is_stop' = StopHolder(is_stop, old)
        /\ stop_task' = StopHolder(stop_task, old)
    /\ UNCHANGED <<res_counter, from_port_event, ev_pc, ev_tmp, cfgVars,
                   port, to_port_event, open_pc, rwVars>>

\* _is_waiting_ack with the comparison > 0 in place of >= 0.
IsWaitingAckStrict(counter) == counter > 0

\* _is_waiting_ack
IsWaitingAck(counter) == counter >= 0

\* The head of _write with its two checks in the other order.
WriteCheckBusyFirst(members, counter) ==
    IF IsWaitingAck(counter) THEN "Busy"
    ELSE IF members = {} THEN "NotFound"
    ELSE "Ok"

\* The head of _write: NotFound on an empty map, then Busy on a counter that
\* is not idle.
WriteCheck(members, counter) ==
    IF members = {} THEN "NotFound"
    ELSE IF IsWaitingAck(counter) THEN "Busy"
    ELSE "Ok"

\* write() calls _ack_finished after _write, whatever _write returned;
\* write_need_ack() returns what _write returned.
CounterAfter(op, counter) == IF op = "write" THEN Idle ELSE counter

\* ---- the event consumer task (_start_holder_event)
\* A consumer that counts a Timeout like an Ack.
IsCountedOrTimeout(kind) == kind \in {"Ack", "Timeout"}

\* The arm of the match that touches the counter.
IsCounted(kind) == kind = "Ack"

\* recv; every event but Ack is only logged.  For Ack the increment starts
\* with the load of _add_and_check_ack_finished.
EvRecv(g) ==
    /\ ev_pc[g] = "recv"
    /\ from_port_event[g] # <<>>
    /\ LET e == Head(from_port_event[g]) IN
        /\ from_port_event' = [from_port_event EXCEPT ![g] = Tail(@)]
        /\ IF IsCounted(e.kind)
             THEN /\ ev_pc' = [ev_pc EXCEPT ![g] = "store"]
                  /\ ev_tmp' = [ev_tmp EXCEPT ![g] = res_counter[g]]
             ELSE UNCHANGED <<ev_pc, ev_tmp>>
    /\ UNCHANGED <<timeVars, convVars, raceVars, budget, regVars, port_holders, res_counter, cfgVars, linkVars, call>>

\* ... the store of the loaded value plus one.
EvStore(g) ==
    /\ ev_pc[g] = "store"
    /\ res_counter' = [res_counter EXCEPT ![g] = ev_tmp[g] + 1]
    /\ ev_pc' = [ev_pc EXCEPT ![g] = "check"]
    /\ UNCHANGED <<timeVars, convVars, raceVars, budget, regVars, port_holders, from_port_event, ev_tmp,
                   cfgVars, linkVars, call>>

\* The comparison of _add_and_check_ack_finished.
AckFinished(counter, holders) == counter >= holders

\* ... the read guard, the comparison with port_holders.len() and, when
\* it holds, _ack_finished.
EvCheck(g) ==
    /\ ev_pc[g] = "check"
    /\ res_counter' = [res_counter EXCEPT ![g] =
          IF AckFinished(@, Cardinality(Members(g))) THEN Idle ELSE @]
    /\ ev_pc' = [ev_pc EXCEPT ![g] = "recv"]
    /\ UNCHANGED <<timeVars, convVars, raceVars, budget, regVars, port_holders, from_port_event, ev_tmp, cfgVars, linkVars, call>>

\* ============================================================== Registry
InFlight == {c \in Callers : call[c].pc # "idle"}

\* SerialPortDevice::add_serialport under the write guard of inner_map: the
\* entry of the name is replaced by a new SerialPortInner.  The replaced
\* SerialPortInner is dropped, which releases one reference to its
\* port_holders; the clone moved into its event consumer task
\* (inner.rs:66), which never returns, keeps the map and its holders alive,
\* so no holder's Drop runs.
AddSerialport(n, cfgs, hb) ==
    /\ InFlight = {}
    /\ ngroups < MaxGroups
    /\ LET g == ngroups + 1 IN
        /\ ngroups' = g
        /\ inner_map' = [inner_map EXCEPT ![n] = g]
        /\ grp_hb' = [grp_hb EXCEPT ![g] = hb]
        /\ pending_cfg' = [pending_cfg EXCEPT ![g] = cfgs]
        /\ ev_pc' = [ev_pc EXCEPT ![g] = "recv"]
    /\ UNCHANGED <<timeVars, convVars, raceVars, budget, port_holders, res_counter, from_port_event, ev_tmp,
                   cfgVars, linkVars, call>>

\* The task spawned by SerialPortInner::new adds the configs one by one.
SpawnAddConfig(g) ==
    /\ \E cfg \in pending_cfg[g] :
        /\ AddConfig(g, cfg)
        /\ pending_cfg' = [pending_cfg EXCEPT ![g] = @ \ {cfg}]
    /\ UNCHANGED <<timeVars, convVars, raceVars, budget, inner_map, ngroups, grp_hb, call>>

\* A lookup that falls back to the Group stored under "a".
LookupOrFirst(map, n) == IF map[n] # NoGroup THEN map[n] ELSE map["a"]

\* The name lookup of every Registry operation.
Lookup(map, n) == map[n]

\* A task may start a call when it is in none and has calls left.
CanCall(c) == call[c].pc = "idle" /\ call[c].left > 0

\* The record of a call of op on name n, found to be Group g, at position pc.
Called(c, op, n, g, pc, result) ==
    call' = [call EXCEPT ![c] = [op |-> op, name |-> n, g |-> g, pc |-> pc,
                                 result |-> result, todo |-> {},
                                 left |-> @.left - 1]]

\* The call of c returns result.
Returned(c, result) ==
    call' = [call EXCEPT ![c].pc = "idle", ![c].result = result, ![c].todo = {}]

\* SerialPortDevice::add_serialport_config
ApiAddConfig(c, n, cfg) ==
    /\ CanCall(c)
    /\ LET g == Lookup(inner_map, n) IN
        IF g = NoGroup
          THEN /\ Called(c, "add_config", n, g, "idle", "NotFound")
               /\ UNCHANGED <<grpVars, cfgVars, linkVars>>
          ELSE /\ AddConfig(g, cfg)
               /\ Called(c, "add_config", n, g, "idle", "Ok")
    /\ UNCHANGED <<timeVars, convVars, raceVars, regVars, budget>>

\* SerialPortDevice::remove_serialport_config
ApiRemoveConfig(c, n, p) ==
    /\ CanCall(c)
    /\ LET g == Lookup(inner_map, n) IN
        IF g = NoGroup
          THEN /\ Called(c, "remove_config", n, g, "idle", "NotFound")
               /\ UNCHANGED <<grpVars, cfgVars, linkVars>>
          ELSE /\ RemoveConfig(g, p)
               /\ Called(c, "remove_config", n, g, "idle", "Ok")
    /\ UNCHANGED <<timeVars, convVars, raceVars, regVars, budget>>

OpName(need_ack) == IF need_ack THEN "write_need_ack" ELSE "write"

\* SerialPortDevice::write / write_need_ack down to the checks of _write.
ApiWrite(c, n, need_ack) ==
    /\ CanCall(c)
    /\ LET g == Lookup(inner_map, n)
           op == OpName(need_ack) IN
        IF g = NoGroup
          THEN /\ Called(c, op, n, g, "idle", "NotFound")
               /\ UNCHANGED res_counter
          ELSE LET r == WriteCheck(Members(g), res_counter[g]) IN
               IF r = "Ok"
                 THEN /\ Called(c, op, n, g, "reset", "none")
                      /\ UNCHANGED res_counter
                 ELSE /\ Called(c, op, n, g, "idle", r)
                      /\ res_counter' = [res_counter EXCEPT ![g] =
                            CounterAfter(op, @)]
    /\ UNCHANGED <<timeVars, convVars, raceVars, budget, regVars, port_holders, from_port_event, ev_pc, ev_tmp,
                   cfgVars, linkVars>>

\* _ack_reset, then one send future per holder.
ApiReset(c) ==
    /\ call[c].pc = "reset"
    /\ res_counter' = [res_counter EXCEPT ![call[c].g] = 0]
    /\ call' = [call EXCEPT ![c].pc = "send", ![c].todo = Members(call[c].g)]
    /\ UNCHANGED <<timeVars, convVars, raceVars, budget, regVars, port_holders, from_port_event, ev_pc, ev_tmp,
                   cfgVars, linkVars>>

\* One send future of join_all completes; with the last one _write returns
\* (Err when a send failed on a closed channel) and write() finishes the
\* counter.
ApiSend(c, p) ==
    /\ call[c].pc = "send"
    /\ p \in call[c].todo
    /\ LET g == call[c].g
           l == port_holders[g][p]
           rest == call[c].todo \ {p}
           failed == call[c].result = "IOError" \/ ChannelClosed(l) IN
        /\ ChannelClosed(l) \/ HasRoom(l)
        /\ to_port_event' =
              Enqueue(to_port_event, l, CmdWrite(call[c].op = "write_need_ack"))
        /\ IF rest = {}
             THEN /\ Returned(c, IF failed THEN "IOError" ELSE "Ok")
                  /\ res_counter' = [res_counter EXCEPT ![g] =
                        CounterAfter(call[c].op, @)]
             ELSE /\ call' = [call EXCEPT ![c].todo = rest,
                         ![c].result = IF failed THEN "IOError" ELSE "none"]
                  /\ UNCHANGED res_counter
    /\ UNCHANGED <<timeVars, convVars, raceVars, budget, regVars, port_holders, from_port_event, ev_pc, ev_tmp,
                   cfgVars, is_stop, port, stop_task, open_pc, rwVars>>

\* ======================================== SerialPortGroup and SerialPort
\* The older Group keeps its ports in a map and reads them itself by racing
\* their next() futures.  Its calls are made one at a time (add_serialport
\* and remove_serialport borrow the Group exclusively; send and next hold
\* the write guard of groups from start to return).  SerialPort.busy is
\* never set, so is_busy() is always false.
PortTimeouts == {0, 100}

\* SerialPortBuilder::build
BuiltPort(t) == [present |-> TRUE, framed |-> FALSE, timeout |-> t]

\* SerialPort::will_timeout
WillTimeout(sp) == sp.timeout # 0

Present == {p \in Paths : groups[p].present}

\* The map after add_serialport(path, port): a path already in the map is
\* removed and the call returns; only a new path is inserted.
AddedPort(gs, p, sp) ==
    IF gs[p].present THEN [gs EXCEPT ![p] = NoPort] ELSE [gs EXCEPT ![p] = sp]

GroupCalled(op, p, again, result) ==
    group_call' = [op |-> op, path |-> p, again |-> again, result |-> result]

\* SerialPortGroup::add_serialport
GroupAddSerialport(p, t) ==
    /\ ~racing.on
    /\ cancel_token' = TRUE
    /\ groups' = AddedPort(groups, p, BuiltPort(t))
    /\ GroupCalled("add_serialport", p, groups[p].present, "Ok")
    /\ UNCHANGED <<timeVars, convVars, coreVars, ack_counter, racing>>

\* SerialPortGroup::remove_serialport
GroupRemoveSerialport(p) ==
    /\ ~racing.on
    /\ cancel_token' = TRUE
    /\ groups' = [groups EXCEPT ![p] = NoPort]
    /\ GroupCalled("remove_serialport", p, FALSE, "Ok")
    /\ UNCHANGED <<timeVars, convVars, coreVars, ack_counter, racing>>

\* The orders in which the values of the map may be visited.
Orders(ps) ==
    {o \in [1..Cardinality(ps) -> ps] :
        \A i, j \in DOMAIN o : i # j => o[i] # o[j]}

\* The loop of send over the ports in order: count the ports that will
\* time out, connect the port (connect_port), write the frame; the first
\* error returns.  out gives what the device does for each port.
RECURSIVE SendAll(_, _, _, _)
SendAll(gs, order, out, need) ==
    IF order = <<>> THEN [groups |-> gs, need |-> need, err |-> FALSE]
    ELSE LET p == Head(order)
             n == IF WillTimeout(gs[p]) THEN need + 1 ELSE need IN
         IF ~gs[p].framed /\ out[p] = "open_fail"
           THEN [groups |-> gs, need |-> n, err |-> TRUE]
         ELSE IF out[p] = "send_fail"
           THEN [groups |-> [gs EXCEPT ![p].framed = FALSE], need |-> n,
                 err |-> TRUE]
         ELSE SendAll([gs EXCEPT ![p].framed = TRUE], Tail(order), out, n)

\* SerialPortGroup::send
GroupSend(order, out) ==
    /\ ~racing.on
    /\ IF ack_counter >= 0
         THEN /\ GroupCalled("send", "none", FALSE, "Busy")
              /\ UNCHANGED <<groups, ack_counter>>
         ELSE LET r == SendAll(groups, order, out, 0) IN
              /\ groups' = r.groups
              /\ ack_counter' = IF ~r.err /\ r.need > 0 THEN 0 ELSE ack_counter
              /\ GroupCalled("send", "none", FALSE, IF r.err THEN "Err" ELSE "Ok")
    /\ UNCHANGED <<timeVars, convVars, coreVars, cancel_token, racing>>

\* SerialPortGroup::next up to the race: NotFound on an empty map; with one
\* port the counter is reset and the port is read; with more ports their
\* next() futures are raced.
GroupNext ==
    /\ ~racing.on
    /\ IF Present = {}
         THEN /\ GroupCalled("next", "none", FALSE, "NotFound")
              /\ UNCHANGED <<ack_counter, racing>>
         ELSE /\ GroupCalled("next", "none", FALSE, "pending")
              /\ ack_counter' = IF Cardinality(Present) = 1 THEN Idle
                                ELSE ack_counter
              /\ racing' = [on |-> TRUE,
                            single |-> Cardinality(Present) = 1,
                            futures |-> Present,
                            need |-> Cardinality({p \in Present :
                                                    WillTimeout(groups[p])})]
    /\ UNCHANGED <<timeVars, convVars, coreVars, groups, cancel_token>>

\* next() returns result; every return path but NotFound resets the counter.
GroupReturn(result) ==
    /\ ack_counter' = Idle
    /\ racing' = NotRacing
    /\ group_call' = [group_call EXCEPT !.result = result]

\* The future of port p makes progress: SerialPort::next connects the
\* port, then a frame (an ack or not), or an error is read.
GroupNextPoll(p, out) ==
    /\ racing.on
    /\ p \in racing.futures
    /\ IF groups[p].framed THEN out \in {"ack", "data", "err"}
                           ELSE out \in {"open_fail", "connected"}
    /\ groups' = [groups EXCEPT ![p].framed = IF out = "connected" THEN TRUE ELSE @]
    /\ CASE out = "connected" -> UNCHANGED <<ack_counter, racing, group_call>>
         [] out \in {"open_fail", "err"} -> GroupReturn("Err")
         [] out = "data" -> GroupReturn("Ok")
         [] out = "ack" ->
              IF racing.single \/ ack_counter + 1 >= racing.need
                THEN GroupReturn("Ok")
              ELSE IF racing.futures = {p}
                THEN GroupReturn("None")
              ELSE /\ ack_counter' = ack_counter + 1
                   /\ racing' = [racing EXCEPT !.futures = @ \ {p}]
                   /\ UNCHANGED group_call
    /\ UNCHANGED <<timeVars, convVars, coreVars, cancel_token>>

\* =========================================================== conversions
\* u8 holds 0..U8Max.
U8Max == 255

\* std::result::Result
Ok(v) == [ok |-> TRUE, value |-> v]
Err(msg) == [ok |-> FALSE, err |-> msg]

\* The integer operators of the code: & and | bit by bit, >> as a division,
\* << on a u8 (bits shifted out are lost), `as u8` (truncation).
RECURSIVE BitAnd(_, _)
BitAnd(a, b) ==
    IF a = 0 \/ b = 0 THEN 0
    ELSE (a % 2) * (b % 2) + 2 * BitAnd(a \div 2, b \div 2)

RECURSIVE BitOr(_, _)
BitOr(a, b) ==
    IF a = 0 THEN b
    ELSE IF b = 0 THEN a
    ELSE (IF a % 2 = 1 \/ b % 2 = 1 THEN 1 ELSE 0) + 2 * BitOr(a \div 2, b \div 2)

Shr(x, k) == x \div (2 ^ k)
ShlU8(x, k) == (x * (2 ^ k)) % (U8Max + 1)
AsU8(x) == x % (U8Max + 1)

\* A variant that returns the decimal unchanged.
dec_to_bcd_binary(n) ==
    IF n > 99 THEN Err("decimal out of range (expected 0..=99)") ELSE Ok(n)

\* utils::bcd::dec_to_bcd
dec_to_bcd(n) ==
    IF n > 99
    THEN Err("decimal out of range (expected 0..=99)")
    ELSE LET hi == n \div 10
             lo == n % 10
         IN  Ok(BitOr(ShlU8(hi, 4), lo))

\* A variant that tests the high nibble only.
bcd_to_dec_high_only(b) ==
    LET hi == BitAnd(Shr(b, 4), 15)
        lo == BitAnd(b, 15)
    IN  IF hi > 9
        THEN Err("invalid BCD digit (nibble must be 0..=9)")
        ELSE Ok((hi * 10 + lo) % (U8Max + 1))

\* utils::bcd::bcd_to_dec
bcd_to_dec(b) ==
    LET hi == BitAnd(Shr(b, 4), 15)
        lo == BitAnd(b, 15)
    IN  IF hi > 9 \/ lo > 9
        THEN Err("invalid BCD digit (nibble must be 0..=9)")
        ELSE Ok((hi * 10 + lo) % (U8Max + 1))

\* A u32 is kept as its two 16-bit halves, [hi, lo] standing for
\* hi * 65536 + lo (the values above 2^31 - 1 are beyond the checker's
\* integers).
U32Of(hi, lo) == [hi |-> hi, lo |-> lo]

\* u32::from_be_bytes: the first byte is the most significant.
FromBeBytes(bytes) ==
    U32Of(bytes[1] * 256 + bytes[2], bytes[3] * 256 + bytes[4])

\* A variant that reads the bytes in the order of from_be_bytes.
FromBytesInOrder(bytes) ==
    U32Of(bytes[1] * 256 + bytes[2], bytes[3] * 256 + bytes[4])

\* u32::from_le_bytes: the first byte is the least significant.
FromLeBytes(bytes) ==
    U32Of(bytes[4] * 256 + bytes[3], bytes[2] * 256 + bytes[1])

\* modbus::registers_to_u32
registers_to_u32(reg1, reg2, register_order, byte_order) ==
    LET high_first == <<AsU8(Shr(reg1, 8)), AsU8(reg1), AsU8(Shr(reg2, 8)), AsU8(reg2)>>
        low_first == <<AsU8(Shr(reg2, 8)), AsU8(reg2), AsU8(Shr(reg1, 8)), AsU8(reg1)>>
    IN  IF register_order \notin {"high_first", "low_first"}
        THEN Err("Invalid register order")
        ELSE LET bytes == IF register_order = "high_first" THEN high_first ELSE low_first
             IN  IF byte_order = "big_endian" THEN Ok(FromBeBytes(bytes))
                 ELSE IF byte_order = "little_endian" THEN Ok(FromLeBytes(bytes))
                 ELSE Err("Invalid byte order. Use 'big_endian' or 'little_endian'.")

\* The arguments the conversions are called with: every u8; registers made
\* of the bytes below; the strings the code knows and some it does not.
Bytes == 0..U8Max
ByteSamples == {0, 1, 16, 39, 128, 255}
RegSamples == {h * 256 + l : h, l \in ByteSamples}
RegisterOrders == {"high_first", "low_first", "HIGH_FIRST", ""}
ByteOrders == {"big_endian", "little_endian", "LITTLE_ENDIAN", ""}

Conversion(fn, args) ==
    [fn |-> fn, args |-> args, pc |-> "ready", result |-> Pending, back |-> Pending]

\* A call of dec_to_bcd returns.
ConvDecToBcd ==
    /\ conv.fn = "dec_to_bcd"
    /\ conv.pc = "ready"
    /\ conv' = [conv EXCEPT !.pc = "returned", !.result = dec_to_bcd(conv.args[1])]
    /\ UNCHANGED <<timeVars, coreVars, raceVars>>

\* A call of bcd_to_dec returns.
ConvBcdToDec ==
    /\ conv.fn = "bcd_to_dec"
    /\ conv.pc = "ready"
    /\ conv' = [conv EXCEPT !.pc = "returned", !.result = bcd_to_dec(conv.args[1])]
    /\ UNCHANGED <<timeVars, coreVars, raceVars>>

\* The value a BCD conversion returned is converted back by the other one.
ConvInvert ==
    /\ conv.fn \in {"dec_to_bcd", "bcd_to_dec"}
    /\ conv.pc = "returned"
    /\ conv.result.ok
    /\ conv' = [conv EXCEPT
          !.pc = "inverted",
          !.back = IF conv.fn = "dec_to_bcd"
                   THEN bcd_to_dec(conv.result.value)
                   ELSE dec_to_bcd(conv.result.value)]
    /\ UNCHANGED <<timeVars, coreVars, raceVars>>

\* A call of registers_to_u32 returns.
ConvRegistersToU32 ==
    /\ conv.fn = "registers_to_u32"
    /\ conv.pc = "ready"
    /\ conv' = [conv EXCEPT
          !.pc = "returned",
          !.result = registers_to_u32(conv.args[1], conv.args[2],
                                      conv.args[3], conv.args[4])]
    /\ UNCHANGED <<timeVars, coreVars, raceVars>>

\* ------------------------------------------------------------------- Next
\* ---- the Group with the members of its construction: fan-out writes,
\* acknowledgement aggregation, faults and reconnection.
Next ==
    \/ \E g \in Groups : SpawnAddConfig(g)
    \/ \E c \in Callers, n \in Names, need_ack \in BOOLEAN : ApiWrite(c, n, need_ack)
    \/ \E c \in Callers : ApiReset(c)
    \/ \E c \in Callers, p \in Paths : ApiSend(c, p)
    \/ \E g \in Groups : EvRecv(g)
    \/ \E g \in Groups : EvStore(g)
    \/ \E g \in Groups : EvCheck(g)
    \/ \E l \in Links : OpenCheck(l)
    \/ \E l \in Links : OpenLock(l)
    \/ \E l \in Links : OpenAttempt(l)
    \/ \E l \in Links : RwHead(l)
    \/ \E l \in Links : RwRead(l)
    \/ \E l \in Links : RwCommand(l)
    \/ \E l \in Links : RwTimeout(l)
    \/ \E l \in Links : HandlerData(l)

Spec == Init /\ [][Next]_vars

\* ---- a Group built from one config with a timeout and one with none:
\* add_serialport("a", [p1 (100 ms), p2 (0)]).
InitThreshold ==
    /\ InitGroups
    /\ InitLinks
    /\ InitRace
    /\ InitConv
    /\ inner_map = [n \in Names |-> IF n = "a" THEN 1 ELSE NoGroup]
    /\ ngroups = 1
    /\ grp_hb = [g \in Groups |-> FALSE]
    /\ pending_cfg = [g \in Groups |->
          IF g = 1 THEN {Cfg("p1", 100), Cfg("p2", 0)} ELSE {}]
    /\ ev_pc = [g \in Groups |-> IF g = 1 THEN "recv" ELSE "none"]
    /\ call = OneCaller
    /\ budget = [faults |-> 0, reads |-> MaxReads]

SpecThreshold == InitThreshold /\ [][Next]_vars

\* ---- a Group of two members losing members while acks are aggregated; a
\* removed holder is followed up to the end of its read/write loop.
InitShrink ==
    /\ InitGroups
    /\ InitLinks
    /\ InitRace
    /\ InitConv
    /\ inner_map = [n \in Names |-> IF n = "a" THEN 1 ELSE NoGroup]
    /\ ngroups = 1
    /\ grp_hb = [g \in Groups |-> FALSE]
    /\ pending_cfg = [g \in Groups |->
          IF g = 1 THEN {Cfg("p1", 100), Cfg("p2", 100)} ELSE {}]
    /\ ev_pc = [g \in Groups |-> IF g = 1 THEN "recv" ELSE "none"]
    /\ call = OneCaller
    /\ budget = [faults |-> 0, reads |-> MaxReads]

NextShrink ==
    \/ \E g \in Groups : SpawnAddConfig(g)
    \/ \E c \in Callers : ApiWrite(c, "a", TRUE)
    \/ \E c \in Callers : ApiReset(c)
    \/ \E c \in Callers, p \in Paths : ApiSend(c, p)
    \/ \E c \in Callers, p \in Paths : ApiRemoveConfig(c, "a", p)
    \/ \E g \in Groups : EvRecv(g)
    \/ \E g \in Groups : EvStore(g)
    \/ \E g \in Groups : EvCheck(g)
    \/ \E l \in Links : OpenCheck(l)
    \/ \E l \in Links : OpenLock(l)
    \/ \E l \in Links : OpenAttempt(l)
    \/ \E l \in Links : RwHead(l)
    \/ \E l \in Links : RwRead(l)
    \/ \E l \in Links : RwCommand(l)
    \/ \E l \in Links : RwTimeout(l)
    \/ \E l \in Links : HandlerData(l)

SpecShrink == InitShrink /\ [][NextShrink]_vars

\* ---- the membership of one Group: configs added and removed through the
\* Registry, holders stopped and closed, writes on the changing membership.
\* No data arrives and no I/O fails here.
InitMembers ==
    /\ InitGroups
    /\ InitLinks
    /\ InitRace
    /\ InitConv
    /\ inner_map = [n \in Names |-> IF n = "a" THEN 1 ELSE NoGroup]
    /\ ngroups = 1
    /\ grp_hb = [g \in Groups |-> FALSE]
    /\ pending_cfg = [g \in Groups |-> IF g = 1 THEN {Cfg("p1", 100)} ELSE {}]
    /\ ev_pc = [g \in Groups |-> IF g = 1 THEN "recv" ELSE "none"]
    /\ call = OneCaller
    /\ budget = [faults |-> 0, reads |-> 0]

NextMembers ==
    \/ \E g \in Groups : SpawnAddConfig(g)
    \/ \E c \in Callers, n \in Names, cfg \in Configs : ApiAddConfig(c, n, cfg)
    \/ \E c \in Callers, n \in Names, p \in Paths : ApiRemoveConfig(c, n, p)
    \/ \E c \in Callers, n \in Names, need_ack \in BOOLEAN : ApiWrite(c, n, need_ack)
    \/ \E c \in Callers : ApiReset(c)
    \/ \E c \in Callers, p \in Paths : ApiSend(c, p)
    \/ \E g \in Groups : EvRecv(g)
    \/ \E l \in Links : StopSend(l)
    \/ \E l \in Links : OpenCheck(l)
    \/ \E l \in Links : OpenLock(l)
    \/ \E l \in Links : OpenAttempt(l)
    \/ \E l \in Links : RwHead(l)
    \/ \E l \in Links : RwCommand(l)
    \/ \E l \in Links : RwTimeout(l)
    \/ \E l \in Links : RwCloseUp(l)
    \/ \E l \in Links : RwCloseDown(l)

SpecMembers == InitMembers /\ [][NextMembers]_vars

\* ---- one Link through its life: opened, written to, heartbeating, losing
\* its handle, reopened, stopped by remove_config and closed.  The Group is
\* a SerialPortInner built with a heartbeat generator.
InitHolder ==
    /\ InitGroups
    /\ InitLinks
    /\ InitRace
    /\ InitConv
    /\ inner_map = [n \in Names |-> IF n = "a" THEN 1 ELSE NoGroup]
    /\ ngroups = 1
    /\ grp_hb = [g \in Groups |-> g = 1]
    /\ pending_cfg = [g \in Groups |-> IF g = 1 THEN {Cfg("p1", 100)} ELSE {}]
    /\ ev_pc = [g \in Groups |-> IF g = 1 THEN "recv" ELSE "none"]
    /\ call = OneCaller
    /\ budget = [faults |-> MaxFaults, reads |-> MaxReads]

NextHolder ==
    \/ \E g \in Groups : SpawnAddConfig(g)
    \/ \E c \in Callers, p \in Paths : ApiRemoveConfig(c, "a", p)
    \/ \E c \in Callers, need_ack \in BOOLEAN : ApiWrite(c, "a", need_ack)
    \/ \E c \in Callers : ApiReset(c)
    \/ \E c \in Callers, p \in Paths : ApiSend(c, p)
    \/ \E g \in Groups : EvRecv(g)
    \/ \E g \in Groups : EvStore(g)
    \/ \E g \in Groups : EvCheck(g)
    \/ \E l \in Links : StopSend(l)
    \/ \E l \in Links : OpenCheck(l)
    \/ \E l \in Links : OpenLock(l)
    \/ \E l \in Links : OpenAttempt(l)
    \/ \E l \in Links : RwHead(l)
    \/ \E l \in Links : RwRead(l)
    \/ \E l \in Links : RwCommand(l)
    \/ \E l \in Links : RwHeartbeat(l)
    \/ \E l \in Links : RwTimeout(l)
    \/ \E l \in Links : RwCloseUp(l)
    \/ \E l \in Links : RwCloseDown(l)
    \/ \E l \in Links : HandlerData(l)

\* Every spawned task that can take a step is scheduled eventually (the
\* tokio runtime polls every task that is ready, its timers fire and its
\* mutex is granted in FIFO order); callers and the device are not obliged
\* to act.
FairHolder ==
    /\ \A g \in Groups : WF_vars(EvRecv(g) \/ EvStore(g) \/ EvCheck(g))
    /\ \A l \in Links :
        /\ WF_vars(StopSend(l))
        /\ WF_vars(OpenCheck(l) \/ OpenLock(l) \/ OpenAttempt(l))
        /\ WF_vars(RwHead(l) \/ RwCommand(l) \/ RwTimeout(l)
                     \/ RwCloseUp(l) \/ RwCloseDown(l))
        /\ WF_vars(HandlerData(l))

SpecHolder == InitHolder /\ [][NextHolder]_vars /\ FairHolder

\* ---- a Group of two members whose configs are removed, the Links being
\* connected or not: the removed holders stop, close and return.
InitRemove ==
    /\ InitGroups
    /\ InitLinks
    /\ InitRace
    /\ InitConv
    /\ inner_map = [n \in Names |-> IF n = "a" THEN 1 ELSE NoGroup]
    /\ ngroups = 1
    /\ grp_hb = [g \in Groups |-> FALSE]
    /\ pending_cfg = [g \in Groups |->
          IF g = 1 THEN {Cfg("p1", 100), Cfg("p2", 100)} ELSE {}]
    /\ ev_pc = [g \in Groups |-> IF g = 1 THEN "recv" ELSE "none"]
    /\ call = OneCaller
    /\ budget = [faults |-> 0, reads |-> 0]

NextRemove ==
    \/ \E g \in Groups : SpawnAddConfig(g)
    \/ \E c \in Callers, p \in Paths : ApiRemoveConfig(c, "a", p)
    \/ \E g \in Groups : EvRecv(g)
    \/ \E l \in Links : StopSend(l)
    \/ \E l \in Links : OpenCheck(l)
    \/ \E l \in Links : OpenLock(l)
    \/ \E l \in Links : OpenAttempt(l)
    \/ \E l \in Links : RwHead(l)
    \/ \E l \in Links : RwCommand(l)
    \/ \E l \in Links : RwCloseUp(l)
    \/ \E l \in Links : RwCloseDown(l)

SpecRemove == InitRemove /\ [][NextRemove]_vars /\ FairHolder

\* ---- one Link of a SerialPortInner built with or without a heartbeat
\* generator: heartbeats, writes and their waits, data and I/O faults; the
\* Link is not stopped.
InitHeartbeat ==
    /\ InitGroups
    /\ InitLinks
    /\ InitRace
    /\ InitConv
    /\ inner_map = [n \in Names |-> IF n = "a" THEN 1 ELSE NoGroup]
    /\ ngroups = 1
    /\ \E hb \in BOOLEAN : grp_hb = [g \in Groups |-> hb /\ g = 1]
    /\ pending_cfg = [g \in Groups |-> IF g = 1 THEN {Cfg("p1", 100)} ELSE {}]
    /\ ev_pc = [g \in Groups |-> IF g = 1 THEN "recv" ELSE "none"]
    /\ call = OneCaller
    /\ budget = [faults |-> MaxFaults, reads |-> MaxReads]

NextHeartbeat ==
    \/ \E g \in Groups : SpawnAddConfig(g)
    \/ \E c \in Callers, need_ack \in BOOLEAN : ApiWrite(c, "a", need_ack)
    \/ \E c \in Callers : ApiReset(c)
    \/ \E c \in Callers, p \in Paths : ApiSend(c, p)
    \/ \E g \in Groups : EvRecv(g)
    \/ \E g \in Groups : EvStore(g)
    \/ \E g \in Groups : EvCheck(g)
    \/ \E l \in Links : OpenCheck(l)
    \/ \E l \in Links : OpenLock(l)
    \/ \E l \in Links : OpenAttempt(l)
    \/ \E l \in Links : RwHead(l)
    \/ \E l \in Links : RwRead(l)
    \/ \E l \in Links : RwCommand(l)
    \/ \E l \in Links : RwHeartbeat(l)
    \/ \E l \in Links : RwTimeout(l)
    \/ \E l \in Links : HandlerData(l)

SpecHeartbeat == InitHeartbeat /\ [][NextHeartbeat]_vars

\* ---- tasks calling write and write_need_ack on one Group at the same time
\* (SerialPortDevice and SerialPortInner are Clone and Send; on the
\* multi-threaded runtime two calls run in parallel).
InitConcurrent ==
    /\ InitGroups
    /\ InitLinks
    /\ InitRace
    /\ InitConv
    /\ inner_map = [n \in Names |-> IF n = "a" THEN 1 ELSE NoGroup]
    /\ ngroups = 1
    /\ grp_hb = [g \in Groups |-> FALSE]
    /\ pending_cfg = [g \in Groups |-> IF g = 1 THEN {Cfg("p1", 100)} ELSE {}]
    /\ ev_pc = [g \in Groups |-> IF g = 1 THEN "recv" ELSE "none"]
    /\ call = [c \in Callers |-> IdleCall(MaxConcurrentCalls)]
    /\ budget = [faults |-> 0, reads |-> MaxReads]

NextConcurrent ==
    \/ \E g \in Groups : SpawnAddConfig(g)
    \/ \E c \in Callers, need_ack \in BOOLEAN : ApiWrite(c, "a", need_ack)
    \/ \E c \in Callers : ApiReset(c)
    \/ \E c \in Callers, p \in Paths : ApiSend(c, p)
    \/ \E g \in Groups : EvRecv(g)
    \/ \E g \in Groups : EvStore(g)
    \/ \E g \in Groups : EvCheck(g)
    \/ \E l \in Links : OpenCheck(l)
    \/ \E l \in Links : OpenLock(l)
    \/ \E l \in Links : OpenAttempt(l)
    \/ \E l \in Links : RwHead(l)
    \/ \E l \in Links : RwRead(l)
    \/ \E l \in Links : RwCommand(l)
    \/ \E l \in Links : RwTimeout(l)
    \/ \E l \in Links : HandlerData(l)

SpecConcurrent == InitConcurrent /\ [][NextConcurrent]_vars

\* ---- one Link on the clock: need-ack writes, their waits and the time
\* the timeout arm takes while reads and commands complete beside it.
InitTimer ==
    /\ InitGroups
    /\ InitLinks
    /\ InitRace
    /\ InitConv
    /\ inner_map = [n \in Names |-> IF n = "a" THEN 1 ELSE NoGroup]
    /\ ngroups = 1
    /\ grp_hb = [g \in Groups |-> FALSE]
    /\ pending_cfg = [g \in Groups |-> IF g = 1 THEN {Cfg("p1", 100)} ELSE {}]
    /\ ev_pc = [g \in Groups |-> IF g = 1 THEN "recv" ELSE "none"]
    /\ call = OneCaller
    /\ budget = [faults |-> 0, reads |-> MaxReads]

NextTimer ==
    \/ \E g \in Groups : SpawnAddConfig(g)
    \/ \E c \in Callers, need_ack \in BOOLEAN : ApiWrite(c, "a", need_ack)
    \/ \E c \in Callers : ApiReset(c)
    \/ \E c \in Callers, p \in Paths : ApiSend(c, p)
    \/ \E g \in Groups : EvRecv(g)
    \/ \E g \in Groups : EvStore(g)
    \/ \E g \in Groups : EvCheck(g)
    \/ \E l \in Links : OpenCheck(l)
    \/ \E l \in Links : OpenLock(l)
    \/ \E l \in Links : OpenAttempt(l)
    \/ \E l \in Links : RwHead(l)
    \/ \E l \in Links : RwRead(l)
    \/ \E l \in Links : RwCommand(l)
    \/ \E l \in Links : RwTimeoutAt(l)
    \/ \E l \in Links : HandlerData(l)
    \/ \E l \in Links : Tick(l)

SpecTimer == InitTimer /\ [][NextTimer]_vars

\* ---- fan-out writes to one Link whose port may never open.  The tasks
\* are scheduled fairly and a call that has started goes on whenever it can;
\* the device is not obliged to let an open attempt succeed.
InitFanOut ==
    /\ InitGroups
    /\ InitLinks
    /\ InitRace
    /\ InitConv
    /\ inner_map = [n \in Names |-> IF n = "a" THEN 1 ELSE NoGroup]
    /\ ngroups = 1
    /\ grp_hb = [g \in Groups |-> FALSE]
    /\ pending_cfg = [g \in Groups |-> IF g = 1 THEN {Cfg("p1", 100)} ELSE {}]
    /\ ev_pc = [g \in Groups |-> IF g = 1 THEN "recv" ELSE "none"]
    /\ call = OneCaller
    /\ budget = [faults |-> 0, reads |-> 0]

NextFanOut ==
    \/ \E g \in Groups : SpawnAddConfig(g)
    \/ \E c \in Callers, need_ack \in BOOLEAN : ApiWrite(c, "a", need_ack)
    \/ \E c \in Callers : ApiReset(c)
    \/ \E c \in Callers, p \in Paths : ApiSend(c, p)
    \/ \E g \in Groups : EvRecv(g)
    \/ \E l \in Links : OpenCheck(l)
    \/ \E l \in Links : OpenLock(l)
    \/ \E l \in Links : OpenAttempt(l)
    \/ \E l \in Links : RwHead(l)
    \/ \E l \in Links : RwCommand(l)
    \/ \E l \in Links : RwTimeout(l)

FairFanOut ==
    /\ FairHolder
    /\ \A g \in Groups : WF_vars(SpawnAddConfig(g))
    /\ \A c \in Callers : WF_vars(ApiReset(c) \/ \E p \in Paths : ApiSend(c, p))

SpecFanOut == InitFanOut /\ [][NextFanOut]_vars /\ FairFanOut

\* ---- the older Group on its own: ports added and removed by path, frames
\* sent and read.
InitGroupRace ==
    /\ InitGroups
    /\ InitLinks
    /\ InitRace
    /\ InitConv
    /\ inner_map = [n \in Names |-> NoGroup]
    /\ ngroups = 0
    /\ grp_hb = [g \in Groups |-> FALSE]
    /\ pending_cfg = [g \in Groups |-> {}]
    /\ ev_pc = [g \in Groups |-> "none"]
    /\ call = OneCaller
    /\ budget = [faults |-> MaxFaults, reads |-> MaxReads]

NextRace ==
    \/ \E p \in Paths, t \in PortTimeouts : GroupAddSerialport(p, t)
    \/ \E p \in Paths : GroupRemoveSerialport(p)
    \/ \E order \in Orders(Present),
          out \in [Paths -> {"ok", "open_fail", "send_fail"}] : GroupSend(order, out)
    \/ GroupNext
    \/ \E p \in Paths, out \in {"open_fail", "connected", "ack", "data", "err"} :
          GroupNextPoll(p, out)

SpecRace == InitGroupRace /\ [][NextRace]_vars

\* ---- the Registry: groups added and replaced under a name, their holders
\* constructed, removed, stopped and closed.
NextRegistry ==
    \/ \E n \in Names, cfgs \in SUBSET {Cfg("p1", 100)} : AddSerialport(n, cfgs, FALSE)
    \/ \E g \in Groups : SpawnAddConfig(g)
    \/ \E c \in Callers, n \in Names, p \in Paths : ApiRemoveConfig(c, n, p)
    \/ \E g \in Groups : EvRecv(g)
    \/ \E l \in Links : StopSend(l)
    \/ \E l \in Links : OpenCheck(l)
    \/ \E l \in Links : OpenLock(l)
    \/ \E l \in Links : OpenAttempt(l)
    \/ \E l \in Links : RwHead(l)
    \/ \E l \in Links : RwCommand(l)
    \/ \E l \in Links : RwCloseUp(l)
    \/ \E l \in Links : RwCloseDown(l)

SpecRegistry == InitMembers /\ [][NextRegistry]_vars

\* ---- the conversions, each called once on arguments of its types.
InitConvert ==
    /\ InitGroups
    /\ InitLinks
    /\ InitRace
    /\ inner_map = [n \in Names |-> NoGroup]
    /\ ngroups = 0
    /\ grp_hb = [g \in Groups |-> FALSE]
    /\ pending_cfg = [g \in Groups |-> {}]
    /\ ev_pc = [g \in Groups |-> "none"]
    /\ call = OneCaller
    /\ budget = [faults |-> 0, reads |-> 0]
    /\ \/ \E n \in Bytes : conv = Conversion("dec_to_bcd", <<n>>)
       \/ \E b \in Bytes : conv = Conversion("bcd_to_dec", <<b>>)
       \/ \E reg1, reg2 \in RegSamples, ro \in RegisterOrders, bo \in ByteOrders :
             conv = Conversion("registers_to_u32", <<reg1, reg2, ro, bo>>)

NextConvert ==
    \/ ConvDecToBcd
    \/ ConvBcdToDec
    \/ ConvInvert
    \/ ConvRegistersToU32

SpecConvert == InitConvert /\ [][NextConvert]_vars

\* ============================================================ properties
\* The step starts a call of caller c (its checks run in the step).
Started(c) == call'[c].left = call[c].left - 1

\* The step completes the send future of caller c for path p.
Sent(c, p) == call[c].pc = "send" /\ p \in call[c].todo /\ p \notin call'[c].todo

\* No caller is inside a fan-out on Group g.
Quiet(g) == Readers(g) = {}

\* C1: write_need_ack on a Group with at least one member returns Busy if
\* and only if the counter is not idle (not -1) when it is called; with the
\* counter idle the call goes on, sets the counter to 0 and enqueues
\* Write{need_ack: true} on every member Link before it returns.
C1_BusyIffCounterNotIdle ==
    [][\A c \in Callers :
        /\ (/\ Started(c)
            /\ call'[c].op = "write_need_ack"
            /\ inner_map[call'[c].name] # NoGroup
            /\ Members(inner_map[call'[c].name]) # {})
           => LET g == inner_map[call'[c].name] IN
              /\ call'[c].result = "Busy" <=> res_counter[g] # Idle
              /\ res_counter[g] = Idle => call'[c].pc = "reset" /\ call'[c].g = g
              /\ res_counter[g] # Idle => call'[c].pc = "idle"
              /\ res_counter'[g] = res_counter[g]
        /\ (call[c].pc = "reset" /\ call'[c].pc # "reset"
                /\ call[c].op = "write_need_ack")
           => /\ res_counter'[call[c].g] = 0
              /\ call'[c].pc = "send"
              /\ call'[c].todo = Members(call[c].g)
        /\ \A p \in Paths :
             (Sent(c, p) /\ call[c].op = "write_need_ack")
             => LET l == port_holders[call[c].g][p] IN
                /\ l # NoLink
                /\ ChannelClosed(l) \/
                     to_port_event'[l] = Append(to_port_event[l], CmdWrite(TRUE))
        /\ (call[c].pc = "send" /\ call'[c].pc = "idle")
           => \E p \in Paths : call[c].todo = {p}
       ]_vars

\* C1 witness: one write_need_ack was rejected as Busy after an earlier one
\* went through its fan-out.
C1_Witness ==
    \E c \in Callers, l \in Links :
        /\ call[c].op = "write_need_ack"
        /\ call[c].result = "Busy"
        /\ call[c].pc = "idle"
        /\ is_need_ack[l]

\* The wait of the latest need-ack request of Group g was resolved by
\* Timeout on every member, nothing is queued or in flight, and the event
\* consumer has taken every event.
TimedOut(g) ==
    /\ Members(g) # {}
    /\ Quiet(g)
    /\ from_port_event[g] = <<>>
    /\ ev_pc[g] = "recv"
    /\ \A l \in MemberLinks(g) :
        /\ last_event[l] = "Timeout"
        /\ ~is_need_ack[l]
        /\ to_port_event[l] = <<>>
        /\ rw_pc[l] = "select"

\* C2: after an accepted write_need_ack whose wait every member resolved by
\* Timeout, the next write_need_ack on the Group is not rejected as Busy.
C2_AcceptedAfterTimeout ==
    [][\A c \in Callers :
        (/\ Started(c)
         /\ call'[c].op = "write_need_ack"
         /\ inner_map[call'[c].name] # NoGroup
         /\ TimedOut(inner_map[call'[c].name]))
        => call'[c].result # "Busy"
       ]_vars

\* Every member of g resolved the wait of its latest Write by Ack, and no
\* need-ack Write is still queued for a member.
AllAcked(g) ==
    \A l \in MemberLinks(g) :
        /\ last_event[l] = "Ack"
        /\ ~is_need_ack[l]
        /\ \A i \in 1..Len(to_port_event[l]) :
              to_port_event[l][i] # CmdWrite(TRUE)

\* The step is the finished transition of Group g: the event consumer
\* resets the counter to idle.
Finished(g) ==
    /\ ev_pc[g] = "check"
    /\ ev_pc'[g] = "recv"
    /\ res_counter[g] # Idle
    /\ res_counter'[g] = Idle

\* C3: the finished transition of a Group happens only when every one of
\* its N members has acknowledged the request that is outstanding, never
\* while fewer than N distinct members have acked.
C3_FinishedAtNthAck ==
    [][\A g \in Groups : (Finished(g) /\ Quiet(g)) => AllAcked(g)]_vars

\* C4: write on a Group with at least one member succeeds in every state of
\* the Group: it is never rejected as Busy.
C4_WriteAlwaysSucceeds ==
    \A c \in Callers :
        (call[c].op = "write" /\ call[c].pc = "idle") => call[c].result # "Busy"

\* C5: on a Group with zero members write and write_need_ack return
\* NotFound, never success and never Busy, whatever the counter holds, and
\* send nothing.
C5_EmptyGroupNotFound ==
    [][\A c \in Callers :
        (/\ Started(c)
         /\ call'[c].op \in {"write", "write_need_ack"}
         /\ inner_map[call'[c].name] # NoGroup
         /\ Members(inner_map[call'[c].name]) = {})
        => /\ call'[c].result = "NotFound"
           /\ call'[c].pc = "idle"
           /\ to_port_event' = to_port_event
       ]_vars

\* C5 witness: a write_need_ack returned NotFound on a Group without
\* members whose counter is not idle.
C5_Witness ==
    \E c \in Callers :
        /\ call[c].op = "write_need_ack"
        /\ call[c].result = "NotFound"
        /\ call[c].g # NoGroup
        /\ Members(call[c].g) = {}
        /\ res_counter[call[c].g] >= 0

\* C7: write, write_need_ack, add_serialport_config and
\* remove_serialport_config called with a name that has no Group return
\* NotFound in the call itself and change no Group's counter, member map or
\* command queue (and construct no Link).
C7_UnknownNameNotFound ==
    [][\A c \in Callers :
        (Started(c) /\ inner_map[call'[c].name] = NoGroup)
        => /\ call'[c].result = "NotFound"
           /\ call'[c].pc = "idle"
           /\ res_counter' = res_counter
           /\ port_holders' = port_holders
           /\ to_port_event' = to_port_event
           /\ nlinks' = nlinks
           /\ is_stop' = is_stop
       ]_vars

\* C7 witness: a call on a name without a Group returned NotFound while a
\* Group with a member is registered under another name.
C7_Witness ==
    \E c \in Callers, g \in Registered :
        /\ call[c].name \in Names
        /\ inner_map[call[c].name] = NoGroup
        /\ call[c].result = "NotFound"
        /\ call[c].op \in {"add_config", "write_need_ack"}
        /\ Members(g) # {}

\* C8: once a Group is replaced under its name, every Link of the replaced
\* Group is signalled to stop (a Group constructed and no longer in the
\* Registry has only stopped Links).
C8_ReplacedGroupStopped ==
    \A g \in 1..ngroups :
        g \notin Registered => \A l \in LinksOf(g) : is_stop[l]

\* C9: stopping a Link produces exactly one Close on the Parser channel and
\* exactly one Close on the Group's event channel: never two of either,
\* both sent once the read/write loop has returned, none sent without a
\* stop, and a stopped Link eventually sends both, whatever commands are
\* queued around the stop.
C9_OneCloseEachWay ==
    /\ [](\A l \in Links :
            /\ closes[l].up <= 1
            /\ closes[l].down <= 1
            /\ closes[l].down <= closes[l].up
            /\ closes[l].up > 0 => is_stop[l]
            /\ rw_pc[l] = "done" => closes[l] = [up |-> 1, down |-> 1])
    /\ \A l \in Links :
          is_stop[l] ~> (closes[l] = [up |-> 1, down |-> 1] /\ rw_pc[l] = "done")

\* C9 witness: a Link stopped with a Write still queued has returned from
\* its read/write loop.
C9_Witness ==
    \E l \in Links :
        /\ is_stop[l]
        /\ rw_pc[l] = "done"
        /\ to_port_event[l] # <<>>
        /\ Head(to_port_event[l]).kind = "Write"

\* C10: while the handle of a Link is absent and is_stop is false the
\* reconnect loop goes on to another open attempt (or the Link is stopped
\* first), also after an attempt that failed; an attempt that succeeds is
\* the only way its handle appears.
C10_ReconnectRetries ==
    /\ \A l \in Links :
          (Constructed(l) /\ ~port[l] /\ ~is_stop[l] /\ open_pc[l] # "open")
          ~> (open_pc[l] = "open" \/ is_stop[l])
    /\ [][\A l \in Links :
            (~port[l] /\ port'[l]) => (open_pc[l] = "open" /\ open_pc'[l] = "check")
         ]_vars

\* C10 witness: the handle was lost to an I/O fault and the reconnect loop
\* is at a new open attempt.
C10_Witness ==
    \E l \in Links :
        /\ open_pc[l] = "open"
        /\ ~is_stop[l]
        /\ budget.faults < MaxFaults

\* C6: after add_serialport is called for a path that already has a port in
\* the Group, exactly one port exists for that path (the second call
\* replaces the first and does not leave the path without a port).
C6_OneLinkAfterSecondAdd ==
    (group_call.op = "add_serialport" /\ group_call.again)
    => groups[group_call.path].present

\* C11: once a Link is stopped its reconnect loop starts no further open
\* attempt, whatever position of its check-lock-open sequence the stop finds
\* it in.
C11_NoOpenAfterStop ==
    [][\A l \in Links :
        (is_stop[l] /\ open_pc[l] # "open") => open_pc'[l] # "open"
      ]_vars

\* The step of Link l is the timeout arm sending event kind upstream.
Resolved(l, kind) ==
    /\ is_need_ack[l]
    /\ ~is_need_ack'[l]
    /\ from_port_event'[link_group[l]] =
          Append(from_port_event[link_group[l]], Event(kind, l))

C13_ZeroTimeoutNeverWaits ==
    \A l \in Links :
        (Constructed(l) /\ link_timeout[l] = 0) => ~is_need_ack[l]

\* C14: an ack wait set on a Link and not notified is resolved by the
\* timeout: the wait is cleared only by the timeout arm, which emits an
\* event for it, and a wait on a Link that is not stopped is cleared
\* eventually.
C14_WaitResolvedByTimeout ==
    /\ [][\A l \in Links :
            (is_need_ack[l] /\ ~is_need_ack'[l])
            => \E kind \in {"Timeout", "HeartbeatTimeout", "Ack", "HeartbeatAck"} :
                  Resolved(l, kind)
         ]_vars
    /\ \A l \in Links :
          is_need_ack[l] ~> (~is_need_ack[l] \/ is_stop[l])

\* The handle of Link l was dropped on an I/O error and is not reopened yet.
HandleLost(l) ==
    /\ Constructed(l)
    /\ ~port[l]
    /\ rw_pc[l] = "head"
    /\ budget.faults < MaxFaults

\* C15: a write or write_need_ack whose send reaches a member Link while
\* the handle of that Link is absent after an I/O failure returns IOError
\* to its caller.
C15_WriteFailsWhileHandleAbsent ==
    [][\A c \in Callers, p \in Paths :
        (/\ Sent(c, p)
         /\ call'[c].pc = "idle"
         /\ HandleLost(port_holders[call[c].g][p]))
        => call'[c].result = "IOError"
      ]_vars

\* Group g is at rest with every member reconnected: no call in progress, no
\* event or command queued, no wait set, every handle present.
AtRest(g) ==
    /\ Members(g) # {}
    /\ Quiet(g)
    /\ from_port_event[g] = <<>>
    /\ ev_pc[g] = "recv"
    /\ \A l \in MemberLinks(g) :
        /\ port[l]
        /\ rw_pc[l] = "select"
        /\ ~is_need_ack[l]
        /\ ~notify[l]
        /\ to_port_event[l] = <<>>
        /\ pipe[l] = 0

\* C16: an I/O fault on a member never leaves the Group invalid: once the
\* request hit by the fault is over (no member waits, timed out or acked)
\* and the member has reconnected, the Group is idle again and accepts
\* write_need_ack.
C16_GroupRecoversAfterFault ==
    \A g \in Registered :
        (/\ AtRest(g)
         /\ budget.faults < MaxFaults
         /\ \A l \in MemberLinks(g) : last_event[l] = "none")
        => ~IsWaitingAck(res_counter[g])

\* The write_need_ack of caller c was accepted and is in its fan-out.
Accepted(c) ==
    /\ call[c].op = "write_need_ack"
    /\ call[c].pc \in {"reset", "send"}

\* C17: of two write_need_ack calls made concurrently on an idle Group at
\* most one is accepted, and a member Link never holds two need-ack Writes,
\* or one besides a wait that is not resolved.
C17_OneAcceptedOfTwo ==
    /\ \A c1, c2 \in Callers :
          (c1 # c2 /\ call[c1].g = call[c2].g) => ~(Accepted(c1) /\ Accepted(c2))
    /\ \A l \in Links :
          Cardinality({i \in 1..Len(to_port_event[l]) :
                          to_port_event[l][i] = CmdWrite(TRUE)})
            + (IF is_need_ack[l] /\ ~is_heartbeat[l] THEN 1 ELSE 0) <= 1

\* The two nibbles of a byte.
HighNibble(b) == b \div 16
LowNibble(b) == b % 16
ValidBcd(b) == HighNibble(b) <= 9 /\ LowNibble(b) <= 9

\* C18: for n in 0..=99 dec_to_bcd(n) succeeds with the nibbles n/10 and
\* n%10 and bcd_to_dec brings it back to n; for a byte b with both nibbles
\* at most 9 bcd_to_dec(b) succeeds and dec_to_bcd brings it back to b.
C18_BcdRoundTrip ==
    /\ (conv.fn = "dec_to_bcd" /\ conv.pc # "ready" /\ conv.args[1] <= 99) =>
          /\ conv.result.ok
          /\ HighNibble(conv.result.value) = conv.args[1] \div 10
          /\ LowNibble(conv.result.value) = conv.args[1] % 10
          /\ conv.pc = "inverted" => conv.back = Ok(conv.args[1])
    /\ (conv.fn = "bcd_to_dec" /\ conv.pc # "ready" /\ ValidBcd(conv.args[1])) =>
          /\ conv.result.ok
          /\ conv.pc = "inverted" => conv.back = Ok(conv.args[1])

\* 0x99 was converted to 99 and back.
C18_Witness ==
    /\ conv.fn = "bcd_to_dec"
    /\ conv.args = <<153>>
    /\ conv.pc = "inverted"
    /\ conv.result = Ok(99)

\* C19: dec_to_bcd returns an error for every n in 100..=255, bcd_to_dec
\* returns an error exactly for the bytes with a nibble above 9, and an
\* error carries no value.
C19_BcdErrors ==
    /\ (conv.fn = "dec_to_bcd" /\ conv.pc # "ready" /\ conv.args[1] >= 100) =>
          /\ ~conv.result.ok
          /\ "value" \notin DOMAIN conv.result
    /\ (conv.fn = "bcd_to_dec" /\ conv.pc # "ready") =>
          /\ ~conv.result.ok <=> ~ValidBcd(conv.args[1])
          /\ ~conv.result.ok => "value" \notin DOMAIN conv.result

\* bcd_to_dec(0x1A) returned an error.
C19_Witness ==
    /\ conv.fn = "bcd_to_dec"
    /\ conv.args = <<26>>
    /\ conv.pc = "returned"
    /\ ~conv.result.ok

\* The four bytes of a u32, most significant first, and a sequence reversed.
ToBeBytes(v) == <<v.hi \div 256, v.hi % 256, v.lo \div 256, v.lo % 256>>
Reversed(q) == [i \in 1..Len(q) |-> q[Len(q) + 1 - i]]

\* C20: registers_to_u32(reg1, reg2, "high_first", "big_endian") is
\* reg1 * 65536 + reg2; "low_first" gives what "high_first" gives with the
\* registers swapped; "little_endian" gives the big-endian result with its
\* four bytes reversed; any other order string gives an error.
C20_RegistersToU32 ==
    (conv.fn = "registers_to_u32" /\ conv.pc = "returned") =>
        LET reg1 == conv.args[1]
            reg2 == conv.args[2]
            ro == conv.args[3]
            bo == conv.args[4]
            known == ro \in {"high_first", "low_first"}
                        /\ bo \in {"big_endian", "little_endian"}
        IN  /\ conv.result.ok <=> known
            /\ (ro = "high_first" /\ bo = "big_endian") =>
                  /\ conv.result.value = U32Of(reg1, reg2)
                  /\ reg1 < 32768 =>
                        conv.result.value.hi * 65536 + conv.result.value.lo
                          = reg1 * 65536 + reg2
            /\ (ro = "low_first" /\ known) =>
                  conv.result = registers_to_u32(reg2, reg1, "high_first", bo)
            /\ (bo = "little_endian" /\ known) =>
                  ToBeBytes(conv.result.value)
                    = Reversed(ToBeBytes(registers_to_u32(reg1, reg2, ro, "big_endian").value))

\* registers_to_u32(0x0000, 0x1027, "low_first", "little_endian") returned
\* 10000.
C20_Witness ==
    /\ conv.fn = "registers_to_u32"
    /\ conv.args = <<0, 4135, "low_first", "little_endian">>
    /\ conv.pc = "returned"
    /\ conv.result = Ok(U32Of(0, 10000))

\* C21: the wait of a Link is cleared only by the timeout arm, in a step
\* that emits exactly one of Ack, Timeout, HeartbeatAck, HeartbeatTimeout
\* and consumes no command: no command clears an outstanding wait.
C21_WaitClearedOnlyByResolution ==
    [][\A l \in Links :
        (is_need_ack[l] /\ ~is_need_ack'[l]) =>
            /\ to_port_event'[l] = to_port_event[l]
            /\ Cardinality({kind \in {"Ack", "Timeout", "HeartbeatAck", "HeartbeatTimeout"} :
                              Resolved(l, kind)}) = 1
      ]_vars

\* The step of Link l is the Write arm taking a need-ack Write whose bytes
\* are written.
WroteNeedAck(l) ==
    /\ rw_pc[l] = "select"
    /\ to_port_event[l] # <<>>
    /\ Head(to_port_event[l]) = CmdWrite(TRUE)
    /\ to_port_event'[l] = Tail(to_port_event[l])
    /\ port'[l]

\* C22: the event resolving a wait is tagged by what set the wait.  A wait
\* is tagged as a Write's only by a need-ack Write whose bytes were written,
\* an outstanding wait keeps its tag unless such a Write replaces it, and
\* the event emitted for a wait carries its tag.
C22_ResolutionTaggedBySetter ==
    [][\A l \in Links :
        /\ (is_need_ack'[l] /\ ~is_heartbeat'[l]
              /\ (~is_need_ack[l] \/ is_heartbeat[l])) => WroteNeedAck(l)
        /\ \A kind \in {"Ack", "Timeout", "HeartbeatAck", "HeartbeatTimeout"} :
              Resolved(l, kind) =>
                  (is_heartbeat[l] <=> kind \in {"HeartbeatAck", "HeartbeatTimeout"})
      ]_vars

\* C23: an I/O error of the read, Write or heartbeat arm drops the handle
\* and the loop goes on to its next head, sending no Close; the loop leaves
\* only on is_stop or a Stop command; only the reconnect loop's open makes
\* the handle present again.
C23_IoErrorDropsHandleAndContinues ==
    [][\A l \in Links :
        /\ (port[l] /\ ~port'[l]) =>
              /\ rw_pc[l] = "select"
              /\ rw_pc'[l] = (IF is_stop[l] THEN "close_up" ELSE "head")
              /\ closes'[l] = closes[l]
              /\ from_port_event' = from_port_event
        /\ (rw_pc[l] # "close_up" /\ rw_pc'[l] = "close_up") =>
              \/ is_stop[l]
              \/ to_port_event[l] # <<>> /\ Head(to_port_event[l]) = CmdStop
        /\ (~port[l] /\ port'[l]) => (open_pc[l] = "open" /\ open_pc'[l] # "open")
      ]_vars

\* A handle dropped on an I/O error was opened again and the loop is back in
\* its select, no Close sent.
C23_Witness ==
    \E l \in Links :
        /\ Constructed(l)
        /\ budget.faults < MaxFaults
        /\ port[l]
        /\ rw_pc[l] = "select"
        /\ ~is_stop[l]
        /\ closes[l].up = 0

\* C24: when the read/write loop of a Link leaves, no command that was
\* enqueued before the Stop is left in the channel: every command still
\* queued has the Stop in front of it.
C24_StopAfterPendingCommands ==
    [][\A l \in Links :
        (rw_pc[l] # "close_up" /\ rw_pc'[l] = "close_up") =>
            \A i \in 1..Len(to_port_event'[l]) :
                to_port_event'[l][i] # CmdStop =>
                    \E j \in 1..(i - 1) : to_port_event'[l][j] = CmdStop
      ]_vars

\* The read/write loop of Link l is in its select with no command to take:
\* it waits for a command, the heartbeat timer, the ack timeout or data.
WaitsInSelect(l) ==
    /\ rw_pc[l] = "select"
    /\ to_port_event[l] = <<>>

\* C25: the reconnect loop of a Link can take the mutex of the handle
\* whenever the read/write loop is waiting in its select.
C25_MutexFreeWhileWaiting ==
    \A l \in Links :
        (Constructed(l) /\ open_pc[l] = "lock" /\ WaitsInSelect(l))
            => ENABLED OpenLock(l)

\* C26: the increment of the event consumer is atomic with respect to the
\* resets of write and write_need_ack: when it stores, the counter becomes
\* what the latest reset left (the increment ordered before that reset) or
\* that value plus one (the increment ordered after it).
C26_IncrementSerializable ==
    [][\A g \in Groups :
        (ev_pc[g] = "store" /\ ev_pc'[g] = "check") =>
            res_counter'[g] \in {res_counter[g], res_counter[g] + 1}
      ]_vars

\* C27: an Ack event taken by the event consumer while the counter is idle
\* leaves the counter idle: the Group does not become Busy by it.
C27_LateAckIgnored ==
    [][\A g \in Groups :
        (ev_pc[g] = "store" /\ ev_pc'[g] = "check"
            /\ ev_tmp[g] = Idle /\ res_counter[g] = Idle)
          => (res_counter'[g] = Idle /\ ~IsWaitingAck(res_counter'[g]))
      ]_vars

\* The members of Group g whose configured timeout is not zero.
TimedMembers(g) == {p \in Members(g) : link_timeout[port_holders[g][p]] # 0}

\* C28: the ack aggregation of a Group completes at the number of members
\* with a nonzero timeout: when the event consumer compares the counter it
\* has incremented, the counter is reset to -1 if it has reached that
\* number and is left as it is if it has not.
C28_ThresholdCountsTimedMembers ==
    [][\A g \in Groups :
        (ev_pc[g] = "check" /\ ev_pc'[g] = "recv") =>
            IF res_counter[g] >= Cardinality(TimedMembers(g))
              THEN res_counter'[g] = Idle
              ELSE res_counter'[g] = res_counter[g]
      ]_vars

\* The step of the event consumer of Group g takes an event of one of kinds.
Consumed(g, kinds) ==
    /\ ev_pc[g] = "recv"
    /\ from_port_event[g] # <<>>
    /\ Head(from_port_event[g]).kind \in kinds
    /\ from_port_event'[g] = Tail(from_port_event[g])

\* C29: the events Timeout, HeartbeatAck, HeartbeatTimeout and Close leave
\* the ack counter of the Group as it is and reach no caller; the counter is
\* changed only by the counting of an Ack event and by a write or
\* write_need_ack call on the Group.
C29_OnlyAckTouchesCounter ==
    [][\A g \in Groups :
        /\ Consumed(g, {"Timeout", "HeartbeatAck", "HeartbeatTimeout", "Close"}) =>
              /\ res_counter'[g] = res_counter[g]
              /\ ev_pc'[g] = "recv"
              /\ call' = call
        /\ (ev_pc[g] = "recv" /\ ev_pc'[g] = "store") => Consumed(g, {"Ack"})
        /\ res_counter'[g] # res_counter[g] =>
              \/ ev_pc[g] \in {"store", "check"} /\ ev_pc'[g] # ev_pc[g]
              \/ \E c \in Callers :
                    /\ call'[c] # call[c]
                    /\ call'[c].g = g
                    /\ call'[c].op \in {"write", "write_need_ack"}
      ]_vars

\* A heartbeat of a member timed out and the event was consumed while a
\* need-ack request of the Group is outstanding.
C29_Witness ==
    \E l \in Links :
        /\ Constructed(l)
        /\ last_event[l] = "HeartbeatTimeout"
        /\ from_port_event[link_group[l]] = <<>>
        /\ ev_pc[link_group[l]] = "recv"
        /\ res_counter[link_group[l]] = 0

\* C30: between two events of its consumer the ack counter of a Group is -1
\* or one of 0..N, N being the number of members the Group has now.
C30_CounterWithinMembers ==
    \A g \in Registered :
        ev_pc[g] = "recv" =>
            res_counter[g] \in (0 - 1)..Cardinality(Members(g))

\* C31: remove_config(config) on a Group takes the Link of config.path out
\* of the member map and leaves every other member; the removed Link is
\* stopped, and a stopped Link eventually sends Close, returns from its
\* read/write loop and leaves its reconnect loop, connected or not.
C31_RemovedLinkStops ==
    /\ [][\A c \in Callers, p \in Paths :
            ApiRemoveConfig(c, "a", p) =>
                LET g == inner_map["a"]
                    old == port_holders[g][p] IN
                /\ port_holders'[g][p] = NoLink
                /\ \A q \in Paths \ {p} : port_holders'[g][q] = port_holders[g][q]
                /\ old # NoLink => is_stop'[old]
                /\ \A l \in Links \ {old} : is_stop'[l] = is_stop[l]
         ]_vars
    /\ \A l \in Links :
          is_stop[l] ~> (/\ rw_pc[l] = "done"
                         /\ closes[l].up = 1
                         /\ open_pc[l] = "exit")

\* One member was removed while its port was open and has closed and left
\* both loops; the other member is still in the map and runs.
C31_Witness ==
    \E l \in Links, p \in Paths :
        /\ Constructed(l)
        /\ is_stop[l]
        /\ port[l]
        /\ rw_pc[l] = "done"
        /\ open_pc[l] = "exit"
        /\ closes[l].up = 1
        /\ port_holders[link_group[l]][link_path[l]] = NoLink
        /\ port_holders[link_group[l]][p] \notin {NoLink, l}
        /\ ~is_stop[port_holders[link_group[l]][p]]

\* C32: an accepted write or write_need_ack of a Group gives every member
\* the Group has one Write command with the flag of the call, no member
\* twice and none left out, and returns Ok: the fan-out starts with all
\* members to do, the members stay as they are while it runs, every send
\* appends one Write to the queue of the member it is for and to no other
\* queue, and the call returns when no member is left.
C32_OneWritePerMember ==
    [][\A c \in Callers :
        LET g == call[c].g
            flag == call[c].op = "write_need_ack" IN
        /\ (call[c].pc = "reset" /\ call'[c].pc = "send") =>
              (call'[c].todo = Members(g) /\ to_port_event' = to_port_event)
        /\ call[c].pc = "send" =>
              /\ port_holders'[g] = port_holders[g]
              /\ call'[c].todo \subseteq call[c].todo
              /\ call'[c].todo # call[c].todo =>
                    \E p \in call[c].todo : Sent(c, p) /\ call'[c].todo = call[c].todo \ {p}
        /\ \A p \in Paths :
              (call[c].pc = "send" /\ Sent(c, p)) =>
                  LET l == port_holders[g][p] IN
                  /\ l # NoLink
                  /\ to_port_event'[l] = Append(to_port_event[l], CmdWrite(flag))
                  /\ \A k \in Links \ {l} : to_port_event'[k] = to_port_event[k]
        /\ (call[c].pc = "send" /\ call'[c].pc = "idle") =>
              (call'[c].result = "Ok" /\ call'[c].todo = {})
      ]_vars

\* A write_need_ack on a Group of two members has returned Ok and each
\* member holds its one Write.
C32_Witness ==
    \E c \in Callers :
        /\ call[c].op = "write_need_ack"
        /\ call[c].pc = "idle"
        /\ call[c].result = "Ok"
        /\ Cardinality(Members(call[c].g)) = 2
        /\ \A l \in MemberLinks(call[c].g) : to_port_event[l] = <<CmdWrite(TRUE)>>

\* C33: the timeout of a wait runs from the moment the wait is set: an
\* outstanding wait is never older than the configured timeout.
C33_OneTimeoutRacePerWait ==
    \A l \in Links :
        (Constructed(l) /\ is_need_ack[l]) => waited[l] <= Ticks(link_timeout[l])

\* The step is a return of SerialPortGroup::next.
NextReturns ==
    /\ group_call'.op = "next"
    /\ group_call'.result # "pending"
    /\ group_call' # group_call

\* C34: every return of next of the SerialPortGroup leaves the ack counter
\* idle, and a send that follows a returned next is not rejected as Busy.
C34_NextLeavesCounterIdle ==
    [][/\ NextReturns => ack_counter' = Idle
       /\ (group_call.op = "next" /\ group_call.result # "pending"
              /\ group_call'.op = "send") => group_call'.result # "Busy"
      ]_vars

\* C35: a write or write_need_ack that is rejected as Busy or NotFound
\* changes nothing: the ack counter, the member map and the command queues
\* are after the call what they were before it.
C35_RejectedWriteHasNoEffect ==
    [][\A c \in Callers :
        (Started(c) /\ call'[c].op \in {"write", "write_need_ack"}
            /\ call'[c].pc = "idle" /\ call'[c].result \in {"Busy", "NotFound"})
          => /\ res_counter' = res_counter
             /\ port_holders' = port_holders
             /\ to_port_event' = to_port_event
      ]_vars

\* C36: a wait is satisfied only by an Ack or Heartbeat command received
\* after it was set: when a need-ack Write sets the wait of a Link no
\* notification is stored from a command taken before.
C36_AckOnlyAfterWaitSet ==
    [][\A l \in Links : WroteNeedAck(l) => ~notify'[l]]_vars

\* C37: a write or write_need_ack that has passed the checks of _write
\* returns, and with it the read guard of the member map is released, also
\* when the port of a member never opens.
C37_FanOutReturns ==
    \A c \in Callers :
        (call[c].pc \in {"reset", "send"}) ~> (call[c].pc = "idle")

\* A Link whose loops have not both returned.
Running(l) == Constructed(l) /\ (rw_pc[l] # "done" \/ open_pc[l] # "exit")

\* A running Link holds the handle or is in open_native_async.
HoldsOrOpens(l) == Running(l) /\ (port[l] \/ open_pc[l] = "open")

\* C38: of the Links of one Group constructed for one path, at most one
\* running Link holds the handle or attempts to open it: the Link replaced
\* by add_config has released its handle and left its loops before the new
\* Link makes an open attempt.
C38_OneOpenerPerPath ==
    \A l, m \in Links :
        (/\ l # m
         /\ HoldsOrOpens(l)
         /\ Constructed(m)
         /\ link_group[m] = link_group[l]
         /\ link_path[m] = link_path[l]) => ~HoldsOrOpens(m)

====
